---------------------------- MODULE Spec2Model ----------------------------
(***************************************************************************)
(* The two DevCam scripts that splice a unit-test target into an Xcode     *)
(* project file, add_test_target.py and add_test_target_complete.py.       *)
(*                                                                         *)
(* The project file is a sequence of records, one per section marker or    *)
(* object entry, each standing for the newline-terminated lines of text it *)
(* serialises to.  str.replace, the "in" test and the regular expressions  *)
(* of the scripts are operators on that sequence, with the occurrence      *)
(* order and the replace-every-occurrence behaviour of the text versions.  *)
(***************************************************************************)
EXTENDS Integers, Sequences, FiniteSets, TLC

(***************************************************************************)
(* Bounds of the explored input space.                                     *)
(***************************************************************************)
\* how many features of a project file may differ from the base layouts below
MaxDeviations == 2
\* how many times a script is started on the same file
MaxRuns == 2
\* how many generate_uuid() calls of a run may return a key already in use
MaxCollisions == 1

(***************************************************************************)
(* Keys hard-coded in add_test_target_complete.py.                         *)
(***************************************************************************)
ProductsKey == "D76E4B1F2F2331380090999D"
MainGroupKey == "D76E4B152F2331380090999D"
MainTargetKey == "D76E4B1D2F2331380090999D"
ProjectKey == "D76E4B162F2331380090999D"

\* the guard text of both scripts
TargetName == "DevCamTests"
ProductName == "DevCamTests.xctest"
ConfigListName == "Build configuration list for PBXNativeTarget \"DevCamTests\""
\* the labels of the model in which the text 'DevCamTests' occurs
NameLabels == {TargetName, ProductName, ConfigListName}

(***************************************************************************)
(* Text records.                                                           *)
(*   kind     "begin" / "end": a section marker comment line               *)
(*            "entry": an object record  KEY /* label */ = { ... };        *)
(*            "blank": an empty line                                       *)
(*   sec      the section a marker names, the isa of an entry              *)
(*   refs     KEY /* label */ references of the body, in text order        *)
(*   children the items of a  children = ( ... );  list                    *)
(*   targets  the items of a  targets = ( ... );  list                     *)
(*   attrs    the text between  TargetAttributes = {  and its closing      *)
(*            brace: a key opens a block  KEY = { ,  "}" closes one        *)
(*   named    the body holds the text 'DevCamTests' outside any label      *)
(***************************************************************************)
Tok(kind, sec, key, label) ==
    [kind |-> kind, sec |-> sec, key |-> key, label |-> label,
     refs |-> <<>>, hasChildren |-> FALSE, children |-> <<>>,
     hasTargets |-> FALSE, targets |-> <<>>,
     hasAttrs |-> FALSE, attrs |-> <<>>, named |-> FALSE]

Begin(sec) == Tok("begin", sec, "", "")
End(sec) == Tok("end", sec, "", "")
Blank == Tok("blank", "", "", "")
Entry(isa, key, label) == Tok("entry", isa, key, label)
\* one  KEY /* label */  occurrence; comma: it is followed by a comma (a list item)
Item(key, label, comma) == [key |-> key, label |-> label, comma |-> comma]
CloseBrace == "}"

RECURSIVE Concat(_)
Concat(ss) == IF ss = <<>> THEN <<>> ELSE Head(ss) \o Concat(Tail(ss))

Range(s) == {s[i] : i \in 1..Len(s)}

(***************************************************************************)
(* The project files the scripts are started on.  A shape says, feature by *)
(* feature, what the file holds; Doc builds the file in Xcode's section    *)
(* order.                                                                  *)
(***************************************************************************)
Features == {"proxy", "fileRef", "fsGroup", "frameworks", "products", "mainGroup",
             "nativeTarget", "targets", "attrs", "resources", "sources",
             "targetDep", "buildConfig", "configList", "named"}

\* 0: absent.  fileRef 2: the section is empty.  products 2: two Products groups.
\* attrs 2: TargetAttributes holds no block.
Values(f) == IF f \in {"fileRef", "products", "attrs"} THEN 0..2 ELSE 0..1

\* the layout of DevCam.xcodeproj: one app target, no test target
Standard == [f \in Features |-> IF f \in {"proxy", "targetDep", "named"} THEN 0 ELSE 1]
\* a file with none of the markers
Empty == [f \in Features |-> 0]

\* base, with the features of D set to the values v gives them
Override(base, D, v) == [f \in Features |-> IF f \in D THEN v[f] ELSE base[f]]

Shapes == UNION {UNION {{Override(base, D, v) :
                            v \in {w \in [D -> 0..2] :
                                     \A f \in D : w[f] \in Values(f) /\ w[f] # base[f]}} :
                        D \in {E \in SUBSET Features : Cardinality(E) <= MaxDeviations}} :
                 base \in {Standard, Empty}}

Section(sec, entries) == <<Begin(sec)>> \o entries \o <<End(sec)>>

MainGroupEntry ==
    [Entry("PBXGroup", MainGroupKey, "") EXCEPT
        !.hasChildren = TRUE,
        !.children = <<Item("FSGROUP", "DevCam", TRUE), Item(ProductsKey, "Products", TRUE)>>]

ProductsEntry(children) ==
    [Entry("PBXGroup", ProductsKey, "Products") EXCEPT
        !.hasChildren = TRUE, !.children = children]

ProjectEntry(s) ==
    [Entry("PBXProject", ProjectKey, "Project object") EXCEPT
        !.hasAttrs = s["attrs"] # 0,
        !.attrs = IF s["attrs"] = 1 THEN <<MainTargetKey, CloseBrace>> ELSE <<>>,
        !.hasTargets = s["targets"] = 1,
        !.targets = IF s["targets"] = 1 THEN <<Item(MainTargetKey, "DevCam", TRUE)>> ELSE <<>>]

Doc(s) == Concat(<<
    IF s["proxy"] = 1
        THEN Section("PBXContainerItemProxy",
                     <<Entry("PBXContainerItemProxy", "OLDPROXY", "PBXContainerItemProxy")>>)
        ELSE <<>>,
    IF s["fileRef"] = 1
        THEN Section("PBXFileReference", <<Entry("PBXFileReference", "APPREF", "DevCam.app")>>)
        ELSE IF s["fileRef"] = 2 THEN Section("PBXFileReference", <<>>) ELSE <<>>,
    IF s["fsGroup"] = 1
        THEN Section("PBXFileSystemSynchronizedRootGroup",
                     <<Entry("PBXFileSystemSynchronizedRootGroup", "FSGROUP", "DevCam")>>)
        ELSE <<>>,
    IF s["frameworks"] = 1
        THEN Section("PBXFrameworksBuildPhase",
                     <<Entry("PBXFrameworksBuildPhase", "APPFRAMEWORKS", "Frameworks")>>)
        ELSE <<>>,
    IF s["mainGroup"] = 1 \/ s["products"] # 0
        THEN Section("PBXGroup",
                (IF s["mainGroup"] = 1 THEN <<MainGroupEntry>> ELSE <<>>)
                \o (IF s["products"] # 0
                      THEN <<ProductsEntry(<<Item("APPREF", "DevCam.app", TRUE)>>)>> ELSE <<>>)
                \o (IF s["products"] = 2 THEN <<ProductsEntry(<<>>)>> ELSE <<>>))
        ELSE <<>>,
    IF s["nativeTarget"] = 1
        THEN Section("PBXNativeTarget", <<Entry("PBXNativeTarget", MainTargetKey, "DevCam")>>)
        ELSE <<>>,
    IF s["targets"] = 1 \/ s["attrs"] # 0
        THEN Section("PBXProject", <<ProjectEntry(s)>>)
        ELSE <<>>,
    IF s["resources"] = 1
        THEN Section("PBXResourcesBuildPhase",
                     <<Entry("PBXResourcesBuildPhase", "APPRESOURCES", "Resources")>>)
        ELSE <<>>,
    IF s["sources"] = 1
        THEN Section("PBXSourcesBuildPhase",
                     <<Entry("PBXSourcesBuildPhase", "APPSOURCES", "Sources")>>)
        ELSE <<>>,
    IF s["targetDep"] = 1
        THEN Section("PBXTargetDependency",
                     <<Entry("PBXTargetDependency", "OLDDEPENDENCY", "PBXTargetDependency")>>)
        ELSE <<>>,
    IF s["buildConfig"] = 1
        THEN Section("XCBuildConfiguration",
                     <<Entry("XCBuildConfiguration", "APPDEBUG", "Debug"),
                       Entry("XCBuildConfiguration", "APPRELEASE", "Release")>>)
        ELSE <<>>,
    IF s["configList"] = 1
        THEN Section("XCConfigurationList",
                     <<Entry("XCConfigurationList", "APPCONFIGLIST",
                             "Build configuration list for PBXNativeTarget \"DevCam\"")>>)
        ELSE <<>>,
    IF s["named"] = 1
        THEN <<Entry("PBXFileSystemSynchronizedRootGroup", "OLDTESTS", TargetName)>>
        ELSE <<>>
    >>)

(***************************************************************************)
(* Text primitives.                                                        *)
(***************************************************************************)
\* whether the record's text holds 'DevCamTests'
HoldsName(t) ==
    \/ t.named
    \/ t.label \in NameLabels
    \/ \E i \in 1..Len(t.refs) : t.refs[i].label \in NameLabels
    \/ \E i \in 1..Len(t.children) : t.children[i].label \in NameLabels
    \/ \E i \in 1..Len(t.targets) : t.targets[i].label \in NameLabels

\* 'DevCamTests' in content
TargetExists(content) == \E i \in 1..Len(content) : HoldsName(content[i])

\* marker in content, for a section marker line
Contains(content, marker) == \E i \in 1..Len(content) : content[i] = marker

\* content.replace(marker, new + marker): in front of every occurrence
RECURSIVE InsertBefore(_, _, _)
InsertBefore(content, marker, new) ==
    IF content = <<>> THEN <<>>
    ELSE (IF Head(content) = marker THEN new ELSE <<>>)
         \o <<Head(content)>> \o InsertBefore(Tail(content), marker, new)

\* re.search: the first of the places an anchor matches, 0 when there is none
FirstOf(places) ==
    IF places = {} THEN 0 ELSE CHOOSE i \in places : \A j \in places : i <= j

(***************************************************************************)
(* The keys of a run, in the order add_test_target_complete.py draws them. *)
(***************************************************************************)
NumUuids == 11
test_target_uuid(u) == u[1]
test_product_uuid(u) == u[2]
test_sources_uuid(u) == u[3]
test_frameworks_uuid(u) == u[4]
test_resources_uuid(u) == u[5]
test_buildconfig_list_uuid(u) == u[6]
test_debug_config_uuid(u) == u[7]
test_release_config_uuid(u) == u[8]
test_dependency_uuid(u) == u[9]
test_target_dependency_uuid(u) == u[10]
test_group_uuid(u) == u[11]

(***************************************************************************)
(* The records the script builds.                                          *)
(***************************************************************************)
new_file_ref(u) == Entry("PBXFileReference", test_product_uuid(u), ProductName)

new_group(u) == Entry("PBXFileSystemSynchronizedRootGroup", test_group_uuid(u), TargetName)

new_frameworks(u) == Entry("PBXFrameworksBuildPhase", test_frameworks_uuid(u), "Frameworks")

new_target(u) ==
    [Entry("PBXNativeTarget", test_target_uuid(u), TargetName) EXCEPT
        !.refs = <<Item(test_buildconfig_list_uuid(u), ConfigListName, FALSE),
                   Item(test_sources_uuid(u), "Sources", TRUE),
                   Item(test_frameworks_uuid(u), "Frameworks", TRUE),
                   Item(test_resources_uuid(u), "Resources", TRUE),
                   Item(test_dependency_uuid(u), "PBXTargetDependency", TRUE),
                   Item(test_group_uuid(u), TargetName, TRUE),
                   Item(test_product_uuid(u), ProductName, FALSE)>>]

container_proxy(u) ==
    <<Begin("PBXContainerItemProxy"),
      [Entry("PBXContainerItemProxy", test_target_dependency_uuid(u), "PBXContainerItemProxy")
          EXCEPT !.refs = <<Item(ProjectKey, "Project object", FALSE)>>],
      End("PBXContainerItemProxy"),
      Blank>>

target_dependency(u) ==
    <<Begin("PBXTargetDependency"),
      [Entry("PBXTargetDependency", test_dependency_uuid(u), "PBXTargetDependency")
          EXCEPT !.refs = <<Item(MainTargetKey, "DevCam", FALSE),
                            Item(test_target_dependency_uuid(u), "PBXContainerItemProxy", FALSE)>>],
      End("PBXTargetDependency"),
      Blank>>

new_resources(u) == Entry("PBXResourcesBuildPhase", test_resources_uuid(u), "Resources")

new_sources(u) == Entry("PBXSourcesBuildPhase", test_sources_uuid(u), "Sources")

\* the Debug and the Release record of the one f-string; PRODUCT_BUNDLE_IDENTIFIER
\* of each ends in DevCamTests
new_debug_config(u) ==
    <<[Entry("XCBuildConfiguration", test_debug_config_uuid(u), "Debug") EXCEPT !.named = TRUE],
      [Entry("XCBuildConfiguration", test_release_config_uuid(u), "Release") EXCEPT !.named = TRUE]>>

new_config_list(u) ==
    [Entry("XCConfigurationList", test_buildconfig_list_uuid(u), ConfigListName) EXCEPT
        !.refs = <<Item(test_debug_config_uuid(u), "Debug", TRUE),
                   Item(test_release_config_uuid(u), "Release", TRUE)>>]

(***************************************************************************)
(* The anchors of add_test_target_complete.py.                             *)
(***************************************************************************)
\* Begin marker, newline, anything, newline, End marker: every record ends its
\* lines with a newline, so the pattern needs a record between the two markers
file_ref_section(content) ==
    \E i, j \in 1..Len(content) :
        /\ content[i] = Begin("PBXFileReference")
        /\ content[j] = End("PBXFileReference")
        /\ j > i + 1

fs_sync_section(content) == Contains(content, End("PBXFileSystemSynchronizedRootGroup"))
frameworks_section(content) == Contains(content, End("PBXFrameworksBuildPhase"))
native_target_section(content) == Contains(content, End("PBXNativeTarget"))
resources_section(content) == Contains(content, End("PBXResourcesBuildPhase"))
sources_section(content) == Contains(content, End("PBXSourcesBuildPhase"))
build_config_section(content) == Contains(content, End("XCBuildConfiguration"))
config_list_section(content) == Contains(content, End("XCConfigurationList"))

\* D76E4B1F2F2331380090999D /* Products */ = { ... children = (
\* (every PBXGroup record holds its children list, so the lazy .*? ends inside it)
IsProductsGroup(t) ==
    t.kind = "entry" /\ t.key = ProductsKey /\ t.label = "Products" /\ t.hasChildren
products_group(content) == FirstOf({i \in 1..Len(content) : IsProductsGroup(content[i])})

\* D76E4B152F2331380090999D = { ... children = (
IsMainGroup(t) == t.kind = "entry" /\ t.key = MainGroupKey /\ t.label = "" /\ t.hasChildren
main_group(content) == FirstOf({i \in 1..Len(content) : IsMainGroup(content[i])})

\* targets = (
IsTargetsList(t) == t.hasTargets
targets_list(content) == FirstOf({i \in 1..Len(content) : IsTargetsList(content[i])})

\* TargetAttributes = {
IsTargetAttributes(t) == t.hasAttrs
target_attrs(content) == FirstOf({i \in 1..Len(content) : IsTargetAttributes(content[i])})

\* the lazy (.*?)(\s*\};) stops at the first closing brace after the opening one:
\* its place in attrs, Len + 1 when it is the brace that closes TargetAttributes
FirstClose(attrs) ==
    IF \E i \in 1..Len(attrs) : attrs[i] = CloseBrace
    THEN CHOOSE i \in 1..Len(attrs) :
            attrs[i] = CloseBrace /\ \A j \in 1..(i - 1) : attrs[j] # CloseBrace
    ELSE Len(attrs) + 1

\* the matched text, from the anchor to the closing delimiter, occurs in t
SameChildren(t, m) ==
    /\ t.kind = m.kind /\ t.sec = m.sec /\ t.key = m.key /\ t.label = m.label
    /\ t.hasChildren /\ t.children = m.children
SameTargets(t, m) == t.hasTargets /\ t.targets = m.targets
SameAttrs(t, m) ==
    /\ t.hasAttrs
    /\ FirstClose(t.attrs) = FirstClose(m.attrs)
    /\ SubSeq(t.attrs, 1, FirstClose(t.attrs) - 1) = SubSeq(m.attrs, 1, FirstClose(m.attrs) - 1)

\* existing_children + the new item, put back between group(1) and group(3);
\* content.replace(match.group(0), ...) does so at every occurrence of the matched text
AppendChild(t, item) == [t EXCEPT !.children = Append(@, item)]
AppendTarget(t, item) == [t EXCEPT !.targets = Append(@, item)]
\* existing_attrs + the new block, put back in front of the matched closing brace
AppendAttrs(t, key) ==
    [t EXCEPT !.attrs = SubSeq(@, 1, FirstClose(@) - 1) \o <<key, CloseBrace>>
                         \o SubSeq(@, FirstClose(@), Len(@))]

(***************************************************************************)
(* The fourteen patch steps, each from the content the step before left.   *)
(***************************************************************************)
Patch1(content, u) ==
    IF file_ref_section(content)
    THEN InsertBefore(content, End("PBXFileReference"), <<new_file_ref(u)>>)
    ELSE content

Patch2(content, u) ==
    IF fs_sync_section(content)
    THEN InsertBefore(content, End("PBXFileSystemSynchronizedRootGroup"), <<new_group(u)>>)
    ELSE content

Patch3(content, u) ==
    IF frameworks_section(content)
    THEN InsertBefore(content, End("PBXFrameworksBuildPhase"), <<new_frameworks(u)>>)
    ELSE content

Patch4(content, u) ==
    IF products_group(content) # 0
    THEN LET m == content[products_group(content)]
         IN  [i \in 1..Len(content) |->
                IF SameChildren(content[i], m) THEN AppendChild(content[i], Item(test_product_uuid(u), ProductName, TRUE)) ELSE content[i]]
    ELSE content

Patch5(content, u) ==
    IF main_group(content) # 0
    THEN LET m == content[main_group(content)]
         IN  [i \in 1..Len(content) |->
                IF SameChildren(content[i], m) THEN AppendChild(content[i], Item(test_group_uuid(u), TargetName, TRUE)) ELSE content[i]]
    ELSE content

Patch6(content, u) ==
    IF native_target_section(content)
    THEN InsertBefore(content, End("PBXNativeTarget"), <<new_target(u)>>)
    ELSE content

Patch7(content, u) ==
    IF ~Contains(content, Begin("PBXContainerItemProxy"))
    THEN InsertBefore(content, Begin("PBXFileReference"), container_proxy(u))
    ELSE content

Patch8(content, u) ==
    IF ~Contains(content, Begin("PBXTargetDependency"))
    THEN InsertBefore(content, Begin("PBXFrameworksBuildPhase"), target_dependency(u))
    ELSE content

Patch9(content, u) ==
    IF targets_list(content) # 0
    THEN LET m == content[targets_list(content)]
         IN  [i \in 1..Len(content) |->
                IF SameTargets(content[i], m) THEN AppendTarget(content[i], Item(test_target_uuid(u), TargetName, TRUE)) ELSE content[i]]
    ELSE content

Patch10(content, u) ==
    IF target_attrs(content) # 0
    THEN LET m == content[target_attrs(content)]
         IN  [i \in 1..Len(content) |->
                IF SameAttrs(content[i], m) THEN AppendAttrs(content[i], test_target_uuid(u)) ELSE content[i]]
    ELSE content

Patch11(content, u) ==
    IF resources_section(content)
    THEN InsertBefore(content, End("PBXResourcesBuildPhase"), <<new_resources(u)>>)
    ELSE content

Patch12(content, u) ==
    IF sources_section(content)
    THEN InsertBefore(content, End("PBXSourcesBuildPhase"), <<new_sources(u)>>)
    ELSE content

Patch13(content, u) ==
    IF build_config_section(content)
    THEN InsertBefore(content, End("XCBuildConfiguration"), new_debug_config(u))
    ELSE content

Patch14(content, u) ==
    IF config_list_section(content)
    THEN InsertBefore(content, End("XCConfigurationList"), <<new_config_list(u)>>)
    ELSE content

(***************************************************************************)
(* add_test_target.py: the main target found by its /* DevCam */ comment.  *)
(***************************************************************************)
NumSimpleUuids == 7

\* the  KEY /* label */  occurrences of a record, in text order
Occurrences(t) ==
    (IF t.kind = "entry" /\ t.label # "" THEN <<Item(t.key, t.label, FALSE)>> ELSE <<>>)
    \o t.refs \o t.children \o t.targets

RECURSIVE AllOccurrences(_)
AllOccurrences(content) ==
    IF content = <<>> THEN <<>>
    ELSE Occurrences(Head(content)) \o AllOccurrences(Tail(content))

\* re.search(r'([A-F0-9]{24}) /\* DevCam \*/', content): group(1), "" without a match
target_match(content) ==
    LET occ == AllOccurrences(content)
        hits == {i \in 1..Len(occ) : occ[i].label = "DevCam"}
    IN  IF hits = {} THEN ""
        ELSE occ[CHOOSE i \in hits : \A j \in hits : i <= j].key

\* content.find(f"{main_target_uuid} /* DevCam */,") != -1
insert_pos_found(content, key) ==
    LET occ == AllOccurrences(content)
    IN  \E i \in 1..Len(occ) : occ[i].key = key /\ occ[i].label = "DevCam" /\ occ[i].comma

(***************************************************************************)
(* State.                                                                  *)
(***************************************************************************)
VARIABLES
    script,            \* which script this process runs: "complete" or "simple"
    run,               \* how many times it has been started on the file
    pc,                \* the statement the process is at
    disk,              \* project.pbxproj on disk
    backup,            \* project.pbxproj.backup on disk
    content,           \* the script's content variable
    uuids,             \* the generate_uuid() results of this run, in call order
    main_target_uuid,  \* add_test_target.py's main_target_uuid
    out,               \* what the process printed
    exitCode,          \* the exit status, -1 while it runs
    luck,              \* how many generate_uuid() calls may still collide
    original           \* the project file as this run found it

vars == <<script, run, pc, disk, backup, content, uuids, main_target_uuid, out,
          exitCode, luck, original>>

\* the keys of the entries of a document
DefinedKeys(c) == {c[i].key : i \in {j \in 1..Len(c) : c[j].kind = "entry"}}

\* a key no earlier call and no project file of the model holds
FreshKey(r, i) == "NEW" \o ToString(r) \o "X" \o ToString(i)

\* the thirteenth digit of the four hard-coded keys is 3; uuid4's is always 4
HardCodedKeys == {ProductsKey, MainGroupKey, MainTargetKey, ProjectKey}

\* uuid.uuid4().hex[:24].upper(): any version-4 value; a lucky call may return
\* a key the document (the hard-coded ones apart) or an earlier call already uses
generate_uuid(r, i, used, lucky) ==
    {FreshKey(r, i)} \cup (IF lucky THEN used \ HardCodedKeys ELSE {})

Init ==
    /\ script \in {"complete", "simple"}
    /\ run = 1
    /\ pc = "load"
    /\ \E s \in Shapes :
        /\ disk = Doc(s)
        /\ luck = IF s = Standard /\ script = "complete" THEN MaxCollisions ELSE 0
    /\ original = disk
    /\ backup = [exists |-> FALSE, data |-> <<>>]
    /\ content = <<>>
    /\ uuids = <<>>
    /\ main_target_uuid = ""
    /\ out = <<>>
    /\ exitCode = -1

Exit(code, message) ==
    /\ pc' = "exit"
    /\ exitCode' = code
    /\ out' = Append(out, message)

(***************************************************************************)
(* add_test_target_complete.py                                             *)
(***************************************************************************)
Load ==
    /\ script = "complete" /\ pc = "load"
    /\ content' = disk
    /\ pc' = "check"
    /\ UNCHANGED <<script, run, disk, backup, uuids, main_target_uuid, out, exitCode,
                   luck, original>>

\* a guard that looks for an entry called DevCamTests, not for the text
AlreadyExistsByLabel(c) == \E i \in 1..Len(c) : c[i].kind = "entry" /\ c[i].label = TargetName

\* if 'DevCamTests' in content
AlreadyExists(c) == TargetExists(c)

CheckExists ==
    /\ script = "complete" /\ pc = "check"
    /\ IF AlreadyExists(content)
       THEN Exit(0, "Test target already exists!")
       ELSE pc' = "uuid" /\ UNCHANGED <<out, exitCode>>
    /\ UNCHANGED <<script, run, disk, backup, content, uuids, main_target_uuid, luck, original>>

GenerateUuid ==
    /\ script = "complete" /\ pc = "uuid"
    /\ \E k \in generate_uuid(run, Len(uuids) + 1, DefinedKeys(content) \cup Range(uuids), luck > 0) :
        /\ uuids' = Append(uuids, k)
        /\ luck' = IF k = FreshKey(run, Len(uuids) + 1) THEN luck ELSE luck - 1
    /\ pc' = IF Len(uuids) + 1 = NumUuids THEN "p1" ELSE "uuid"
    /\ UNCHANGED <<script, run, disk, backup, content, main_target_uuid, out, exitCode, original>>

\* one patch step: content becomes what the step makes of it
Step(here, patched, next) ==
    /\ script = "complete" /\ pc = here
    /\ content' = patched
    /\ pc' = next
    /\ UNCHANGED <<script, run, disk, backup, uuids, main_target_uuid, out, exitCode,
                   luck, original>>

\* a first step that writes what it spliced straight back to the file
AddFileReferenceInPlace ==
    /\ script = "complete" /\ pc = "p1"
    /\ content' = Patch1(content, uuids)
    /\ disk' = content'
    /\ pc' = "p2"
    /\ UNCHANGED <<script, run, backup, uuids, main_target_uuid, out, exitCode, luck, original>>

AddFileReference == Step("p1", Patch1(content, uuids), "p2")
AddSyncGroup == Step("p2", Patch2(content, uuids), "p3")
AddFrameworksPhase == Step("p3", Patch3(content, uuids), "p4")
AddProductChild == Step("p4", Patch4(content, uuids), "p5")
AddMainGroupChild == Step("p5", Patch5(content, uuids), "p6")
AddNativeTarget == Step("p6", Patch6(content, uuids), "p7")
AddContainerProxy == Step("p7", Patch7(content, uuids), "p8")
AddTargetDependency == Step("p8", Patch8(content, uuids), "p9")
AddProjectTarget == Step("p9", Patch9(content, uuids), "p10")
AddTargetAttributes == Step("p10", Patch10(content, uuids), "p11")
AddResourcesPhase == Step("p11", Patch11(content, uuids), "p12")
AddSourcesPhase == Step("p12", Patch12(content, uuids), "p13")
AddBuildConfigurations == Step("p13", Patch13(content, uuids), "p14")
AddConfigurationList == Step("p14", Patch14(content, uuids), "open")

\* open(project_path, 'w') truncates the file
OpenForWrite ==
    /\ script = "complete" /\ pc = "open"
    /\ disk' = <<>>
    /\ pc' = "write"
    /\ UNCHANGED <<script, run, backup, content, uuids, main_target_uuid, out, exitCode,
                   luck, original>>

WriteBack ==
    /\ script = "complete" /\ pc = "write"
    /\ disk' = content
    /\ pc' = "report"
    /\ UNCHANGED <<script, run, backup, content, uuids, main_target_uuid, out, exitCode,
                   luck, original>>

ReportSuccess ==
    /\ script = "complete" /\ pc = "report"
    /\ Exit(0, "Successfully added DevCamTests target to Xcode project!")
    /\ UNCHANGED <<script, run, disk, backup, content, uuids, main_target_uuid, luck, original>>

(***************************************************************************)
(* add_test_target.py                                                      *)
(***************************************************************************)
SimpleLoad ==
    /\ script = "simple" /\ pc = "load"
    /\ content' = disk
    /\ pc' = "check"
    /\ UNCHANGED <<script, run, disk, backup, uuids, main_target_uuid, out, exitCode,
                   luck, original>>

SimpleCheckExists ==
    /\ script = "simple" /\ pc = "check"
    /\ IF AlreadyExists(content)
       THEN Exit(0, "Test target already exists")
       ELSE /\ pc' = "backup"
            /\ out' = Append(out, "Adding test target to Xcode project...")
            /\ UNCHANGED exitCode
    /\ UNCHANGED <<script, run, disk, backup, content, uuids, main_target_uuid, luck, original>>

\* shutil.copy(pbxproj_path, pbxproj_path + ".backup")
SimpleBackup ==
    /\ script = "simple" /\ pc = "backup"
    /\ backup' = [exists |-> TRUE, data |-> disk]
    /\ pc' = "find_target"
    /\ UNCHANGED <<script, run, disk, content, uuids, main_target_uuid, out, exitCode,
                   luck, original>>

SimpleFindTarget ==
    /\ script = "simple" /\ pc = "find_target"
    /\ IF target_match(content) = ""
       THEN Exit(1, "Could not find main target") /\ UNCHANGED main_target_uuid
       ELSE /\ main_target_uuid' = target_match(content)
            /\ pc' = "uuid"
            /\ UNCHANGED <<out, exitCode>>
    /\ UNCHANGED <<script, run, disk, backup, content, uuids, luck, original>>

SimpleGenerateUuid ==
    /\ script = "simple" /\ pc = "uuid"
    /\ \E k \in generate_uuid(run, Len(uuids) + 1, DefinedKeys(content) \cup Range(uuids), luck > 0) :
        /\ uuids' = Append(uuids, k)
        /\ luck' = IF k = FreshKey(run, Len(uuids) + 1) THEN luck ELSE luck - 1
    /\ pc' = IF Len(uuids) + 1 = NumSimpleUuids THEN "find_insert" ELSE "uuid"
    /\ UNCHANGED <<script, run, disk, backup, content, main_target_uuid, out, exitCode, original>>

SimpleFindInsert ==
    /\ script = "simple" /\ pc = "find_insert"
    /\ IF ~insert_pos_found(content, main_target_uuid)
       THEN Exit(1, "Could not find insertion point")
       ELSE pc' = "manual" /\ UNCHANGED <<out, exitCode>>
    /\ UNCHANGED <<script, run, disk, backup, content, uuids, main_target_uuid, luck, original>>

\* the last statement: the interpreter then ends with status 0
SimpleManual ==
    /\ script = "simple" /\ pc = "manual"
    /\ Exit(0, "Manual configuration required. Please use Xcode GUI to add test target.")
    /\ UNCHANGED <<script, run, disk, backup, content, uuids, main_target_uuid, luck, original>>

(***************************************************************************)
(* The environment: the process may die at any statement, and a finished   *)
(* script may be started again on the file it left.                        *)
(***************************************************************************)
\* what the dead process held in memory is gone; the files and the output stay
Crash ==
    /\ pc \notin {"exit", "crashed"}
    /\ pc' = "crashed"
    /\ content' = <<>>
    /\ uuids' = <<>>
    /\ main_target_uuid' = ""
    /\ UNCHANGED <<script, run, disk, backup, out, exitCode, luck, original>>

Rerun ==
    /\ pc = "exit" /\ run < MaxRuns
    /\ run' = run + 1
    /\ pc' = "load"
    /\ original' = disk
    /\ content' = <<>>
    /\ uuids' = <<>>
    /\ main_target_uuid' = ""
    /\ out' = <<>>
    /\ exitCode' = -1
    /\ UNCHANGED <<script, disk, backup, luck>>

Next ==
    \/ Load \/ CheckExists \/ GenerateUuid
    \/ AddFileReference \/ AddSyncGroup \/ AddFrameworksPhase \/ AddProductChild
    \/ AddMainGroupChild \/ AddNativeTarget \/ AddContainerProxy \/ AddTargetDependency
    \/ AddProjectTarget \/ AddTargetAttributes \/ AddResourcesPhase \/ AddSourcesPhase
    \/ AddBuildConfigurations \/ AddConfigurationList
    \/ OpenForWrite \/ WriteBack \/ ReportSuccess
    \/ SimpleLoad \/ SimpleCheckExists \/ SimpleBackup \/ SimpleFindTarget
    \/ SimpleGenerateUuid \/ SimpleFindInsert \/ SimpleManual
    \/ Crash \/ Rerun

Spec == Init /\ [][Next]_vars

(***************************************************************************)
(* The batch as a whole.                                                   *)
(***************************************************************************)
SuccessMessage == "Successfully added DevCamTests target to Xcode project!"
ExistsMessage == "Test target already exists!"

PatchN(i, c, u) ==
    CASE i = 1 -> Patch1(c, u)   [] i = 2 -> Patch2(c, u)   [] i = 3 -> Patch3(c, u)
      [] i = 4 -> Patch4(c, u)   [] i = 5 -> Patch5(c, u)   [] i = 6 -> Patch6(c, u)
      [] i = 7 -> Patch7(c, u)   [] i = 8 -> Patch8(c, u)   [] i = 9 -> Patch9(c, u)
      [] i = 10 -> Patch10(c, u) [] i = 11 -> Patch11(c, u) [] i = 12 -> Patch12(c, u)
      [] i = 13 -> Patch13(c, u) [] i = 14 -> Patch14(c, u)

\* the content after the first i steps of a run that loaded c
RECURSIVE After(_, _, _)
After(i, c, u) == IF i = 0 THEN c ELSE PatchN(i, After(i - 1, c, u), u)

\* whether step i, at content c, finds the text it splices at.  A section that
\* steps 7 and 8 need not create is not a missing anchor.
AnchorFound(i, c) ==
    CASE i = 1 -> file_ref_section(c)
      [] i = 2 -> fs_sync_section(c)
      [] i = 3 -> frameworks_section(c)
      [] i = 4 -> products_group(c) # 0
      [] i = 5 -> main_group(c) # 0
      [] i = 6 -> native_target_section(c)
      [] i = 7 -> Contains(c, Begin("PBXContainerItemProxy")) \/ Contains(c, Begin("PBXFileReference"))
      [] i = 8 -> Contains(c, Begin("PBXTargetDependency")) \/ Contains(c, Begin("PBXFrameworksBuildPhase"))
      [] i = 9 -> targets_list(c) # 0
      [] i = 10 -> target_attrs(c) # 0
      [] i = 11 -> resources_section(c)
      [] i = 12 -> sources_section(c)
      [] i = 13 -> build_config_section(c)
      [] i = 14 -> config_list_section(c)

NumSteps == 14
MissingAnchors(c, u) == {i \in 1..NumSteps : ~AnchorFound(i, After(i - 1, c, u))}

(***************************************************************************)
(* Vocabulary of the properties.                                           *)
(***************************************************************************)
\* add_test_target_complete.py ran its batch, wrote the file and reported success
Patched == script = "complete" /\ pc = "exit" /\ out = <<SuccessMessage>>

\* no generate_uuid() call of this run returned a key already in use
FreshKeys == \A i \in 1..Len(uuids) : uuids[i] = FreshKey(run, i)

EntryCount(c, k) == Cardinality({i \in 1..Len(c) : c[i].kind = "entry" /\ c[i].key = k})

\* the keys the lists and attributes of a document refer to
ReferencedKeys(c) ==
    UNION {{c[i].refs[j].key : j \in 1..Len(c[i].refs)}
           \cup {c[i].children[j].key : j \in 1..Len(c[i].children)}
           \cup {c[i].targets[j].key : j \in 1..Len(c[i].targets)}
           \cup (Range(c[i].attrs) \ {CloseBrace}) : i \in 1..Len(c)}

\* the places of a document where record t stands
Places(c, t) == {i \in 1..Len(c) : c[i] = t}

\* the steps that append to a list, and how many regions of c the anchor of each matches
ListSteps == {4, 5, 9, 10}
MatchCount(i, c) ==
    Cardinality({j \in 1..Len(c) :
        CASE i = 4 -> IsProductsGroup(c[j])
          [] i = 5 -> IsMainGroup(c[j])
          [] i = 9 -> IsTargetsList(c[j])
          [] i = 10 -> IsTargetAttributes(c[j])})

\* a section with both markers and a record between them
NonEmptySection(c, sec) ==
    \E i, j \in 1..Len(c) : c[i] = Begin(sec) /\ c[j] = End(sec) /\ j > i + 1

\* the entries of a document that no step inserted, without their lists
WithoutLists(t) == [t EXCEPT !.children = <<>>, !.targets = <<>>, !.attrs = <<>>]
OldEntries(c, u) ==
    LET Old(t) == t.kind = "entry" /\ t.key \notin Range(u)
        old == SelectSeq(c, Old)
    IN  [i \in 1..Len(old) |-> WithoutLists(old[i])]

(***************************************************************************)
(* C1.  When the loaded project file holds the text 'DevCamTests', either  *)
(* script stops at its guard: it never reaches a statement after the       *)
(* guard, draws no key, changes no record of the content it loaded, leaves *)
(* the project file as it found it, creates no backup file, and exits with *)
(* status 0.                                                               *)
(***************************************************************************)
C1_AlreadyAppliedGuard ==
    TargetExists(original) =>
        /\ pc \in {"load", "check", "exit", "crashed"}
        /\ disk = original
        /\ ~backup.exists
        /\ uuids = <<>>
        /\ content \in {<<>>, original}
        /\ pc = "exit" => (exitCode = 0 /\ Len(out) = 1)

C1_Witness ==
    /\ script = "complete" /\ run = 2 /\ pc = "exit"
    /\ TargetExists(original) /\ out = <<ExistsMessage>> /\ disk = original

(***************************************************************************)
(* C2.  A second run of add_test_target_complete.py on a file its first    *)
(* run changed is stopped by the already-exists guard, exits with status   *)
(* 0 and leaves the file as the first run wrote it.                        *)
(***************************************************************************)
ChangedByEarlierRun(c) ==
    \E r \in 1..(run - 1), i \in 1..NumUuids :
        FreshKey(r, i) \in DefinedKeys(c) \cup ReferencedKeys(c)

C2_RerunIsNoOp ==
    (script = "complete" /\ run > 1 /\ pc = "exit" /\ ChangedByEarlierRun(original)) =>
        /\ out = <<ExistsMessage>>
        /\ exitCode = 0
        /\ disk = original

(***************************************************************************)
(* C3.  When a step of the batch does not find its anchor, the run reports *)
(* the failure and the project file is left as the run found it.           *)
(***************************************************************************)
C3_AllOrNothing ==
    (script = "complete" /\ pc = "exit" /\ Len(uuids) = NumUuids
        /\ MissingAnchors(original, uuids) # {}) =>
        /\ out # <<SuccessMessage>>
        /\ disk = original

(***************************************************************************)
(* C4.  After a run that wrote the file and reported success, every key of *)
(* the run that a list or an attribute of the written file refers to is    *)
(* the key of exactly one entry of the file.  (Stated for runs whose keys  *)
(* are all fresh, so that a violation is not a key collision, C5's case.)  *)
(***************************************************************************)
C4_ReferentialIntegrity ==
    (Patched /\ FreshKeys) =>
        \A k \in ReferencedKeys(disk) \cap Range(uuids) : EntryCount(disk, k) = 1

(***************************************************************************)
(* C5.  The keys generate_uuid() returns in a run differ from one another  *)
(* and from the key of every entry of the loaded file, and the written     *)
(* file holds no two entries with the same key of the run.                 *)
(***************************************************************************)
C5_NoKeyCollision ==
    script = "complete" =>
        /\ \A i, j \in 1..Len(uuids) : i # j => uuids[i] # uuids[j]
        /\ Range(uuids) \cap DefinedKeys(original) = {}
        /\ Patched => \A k \in Range(uuids) : EntryCount(disk, k) <= 1

(***************************************************************************)
(* C6.  A list-append step whose anchor matches no region or more than one *)
(* region of the content it runs on fails with an error and changes        *)
(* nothing.                                                                *)
(***************************************************************************)
C6_SingleAnchor ==
    (script = "complete" /\ pc = "exit" /\ Len(uuids) = NumUuids) =>
        \A i \in ListSteps :
            LET before == After(i - 1, original, uuids)
            IN  MatchCount(i, before) # 1 =>
                    /\ exitCode = 1
                    /\ PatchN(i, before, uuids) = before

(***************************************************************************)
(* C7.  For a file without 'DevCamTests' whose PBXFileReference,           *)
(* PBXNativeTarget and XCBuildConfiguration sections are present and not   *)
(* empty, the written file holds the PBXContainerItemProxy entry, the      *)
(* DevCamTests.xctest file reference, the DevCamTests native target and    *)
(* the Debug and Release configurations exactly once each, each right in   *)
(* front of the end marker of its section, and the entries the file had    *)
(* are all there, in their order, unchanged apart from the lists the batch *)
(* appends to.  (Stated for runs whose keys are all fresh.)                *)
(***************************************************************************)
RightBefore(c, t, next) ==
    /\ Cardinality(Places(c, t)) = 1
    /\ \A i \in Places(c, t) : i < Len(c) /\ c[i + 1] = next

C7_InsertScenario ==
    (/\ Patched /\ FreshKeys
     /\ NonEmptySection(original, "PBXFileReference")
     /\ NonEmptySection(original, "PBXNativeTarget")
     /\ NonEmptySection(original, "XCBuildConfiguration")) =>
        /\ RightBefore(disk, container_proxy(uuids)[2], End("PBXContainerItemProxy"))
        /\ RightBefore(disk, new_file_ref(uuids), End("PBXFileReference"))
        /\ RightBefore(disk, new_target(uuids), End("PBXNativeTarget"))
        /\ RightBefore(disk, new_debug_config(uuids)[1], new_debug_config(uuids)[2])
        /\ RightBefore(disk, new_debug_config(uuids)[2], End("XCBuildConfiguration"))
        /\ OldEntries(disk, uuids) = OldEntries(original, uuids)

(***************************************************************************)
(* C8.  A script that has ended has status 1 when an anchor it needs was   *)
(* not found, and status 0 otherwise (the patch was made, or the target    *)
(* was already there).                                                     *)
(***************************************************************************)
StructuralFailure ==
    /\ ~TargetExists(original)
    /\ IF script = "simple"
       THEN \/ target_match(original) = ""
            \/ ~insert_pos_found(original, target_match(original))
       ELSE MissingAnchors(original, uuids) # {}

C8_ExitCodes == pc = "exit" => exitCode = (IF StructuralFailure THEN 1 ELSE 0)

(***************************************************************************)
(* C9.  The project file changes only in the save of                       *)
(* add_test_target_complete.py, which comes after the last patch step and  *)
(* is followed by nothing but the success message; until the save the file *)
(* is as the run found it, whatever statement the process dies at.         *)
(* add_test_target.py never changes it: the one file it writes is the      *)
(* backup, a copy of the content it loaded.                                *)
(***************************************************************************)
BeforeSave == {"load", "check", "uuid", "p1", "p2", "p3", "p4", "p5", "p6", "p7", "p8",
               "p9", "p10", "p11", "p12", "p13", "p14", "open"}

C9_StepRule ==
    /\ disk' # disk =>
        /\ script = "complete"
        /\ \/ pc = "open" /\ pc' = "write"
           \/ pc = "write" /\ pc' = "report" /\ disk' = content
    /\ pc = "report" => pc' \in {"exit", "crashed"} /\ disk' = disk
    /\ backup' # backup =>
        /\ script = "simple"
        /\ backup' = [exists |-> TRUE, data |-> content]
        /\ content = original
    /\ pc' \in BeforeSave \/ script = "simple" => disk' = original'

C9_LoadMutateSave == [][C9_StepRule]_vars

C9_Witness == Patched /\ disk = content /\ disk # original

(***************************************************************************)
(* C10.  In the written file every list the batch appended to holds the    *)
(* new item once, after the items the list had, which are unchanged; the   *)
(* new TargetAttributes block stands after the blocks TargetAttributes     *)
(* had, inside no other block.  (Stated for runs whose keys are all        *)
(* fresh.)                                                                 *)
(***************************************************************************)
\* how many blocks of attrs are open at place n
Depth(attrs, n) ==
    Cardinality({i \in 1..(n - 1) : attrs[i] # CloseBrace})
    - Cardinality({i \in 1..(n - 1) : attrs[i] = CloseBrace})

AppendedLast(list, old, k) ==
    /\ Len(list) = Len(old) + 1
    /\ SubSeq(list, 1, Len(old)) = old
    /\ list[Len(list)].key = k

C10_ListAppendPosition ==
    (Patched /\ FreshKeys) =>
        \A i \in 1..Len(disk) :
            LET t == disk[i]
                Has(list, k) == \E j \in 1..Len(list) : list[j].key = k
            IN  /\ \A k \in {test_product_uuid(uuids), test_group_uuid(uuids)} :
                    Has(t.children, k) =>
                        \E j \in 1..Len(original) :
                            /\ original[j].key = t.key
                            /\ AppendedLast(t.children, original[j].children, k)
                /\ Has(t.targets, test_target_uuid(uuids)) =>
                        \E j \in 1..Len(original) :
                            /\ original[j].key = t.key
                            /\ AppendedLast(t.targets, original[j].targets, test_target_uuid(uuids))
                /\ test_target_uuid(uuids) \in Range(t.attrs) =>
                        \E j \in 1..Len(original) :
                            /\ original[j].key = t.key
                            /\ t.attrs = original[j].attrs \o <<test_target_uuid(uuids), CloseBrace>>
                            /\ Depth(t.attrs, Len(t.attrs) - 1) = 0

=============================================================================
